---- MODULE Spec2Model ----
(***************************************************************************)
(* Model of serde-generate/runtime/cpp/serde.hpp: the type-directed        *)
(* Serializable / Deserializable trait families, the 128-bit integer       *)
(* structs and the static case table of the variant deserializer.          *)
(***************************************************************************)
EXTENDS Integers, Sequences, FiniteSets, TLC

VARIABLES
    evalOrder,  \* order in which this build evaluates function arguments
    ty,         \* static type T of the Serializable<T>/Deserializable<T> call
    value,      \* the value handed to Serializable<T>::serialize
    output,     \* operations the Serializer has received, in order
    input,      \* operations the Deserializer will replay, in order
    phase,      \* position of the codec driver
    res,        \* outcome of Deserializable<T>::deserialize
    lhs, rhs,   \* operands of the 128-bit operator==
    eqKind,     \* which 128-bit struct the operands are
    eqRes,      \* result of operator==
    guard,      \* per instantiation: state of the static local `cases`
    cases,      \* per instantiation: the entries of `cases` built so far
    built,      \* per instantiation: how often `cases` was constructed
    pc,         \* per thread: position inside deserialize
    inst,       \* per thread: Deserializer type of the running call
    index,      \* per thread: the variant index read
    decoded,    \* per thread: alternative decoded by the invoked case
    calls       \* per thread: number of deserialize calls started

vars == <<evalOrder, ty, value, output, input, phase, res,
          lhs, rhs, eqKind, eqRes,
          guard, cases, built, pc, inst, index, decoded, calls>>

codecVars == <<evalOrder, ty, value, output, input, res>>
eqVars == <<lhs, rhs, eqKind, eqRes>>
tableVars == <<guard, cases, built, pc, inst, index, decoded, calls>>

(***************************************************************************)
(* Bounds of the explored universe.                                        *)
(***************************************************************************)
MaxLen == 2        \* longest vector / largest map drawn as an input value
ArrayN == 2        \* N of the std::array<T, N> shapes drawn

(***************************************************************************)
(* Types: the template arguments of Serializable<T> / Deserializable<T>.   *)
(***************************************************************************)
LeafKinds == {"str", "unit", "bool", "u8", "u32"}

TStr == [k |-> "str"]
TUnit == [k |-> "unit"]
TBool == [k |-> "bool"]
TU8 == [k |-> "u8"]
TU32 == [k |-> "u32"]
TBox(T) == [k |-> "unique_ptr", t |-> T]
TOption(T) == [k |-> "optional", t |-> T]
TVector(T) == [k |-> "vector", t |-> T]
TArray(T, N) == [k |-> "array", t |-> T, n |-> N]
TMap(K, V) == [k |-> "map", kt |-> K, vt |-> V]
TTuple(ts) == [k |-> "tuple", ts |-> ts]
TVariant(ts) == [k |-> "variant", ts |-> ts]

\* Values are tagged with their shape so that any two of them compare.
Leaf(kind, x) == [k |-> kind, v |-> x]
Unit == Leaf("unit", 0)
Box(x) == [k |-> "unique_ptr", ptr |-> x]
None == [k |-> "optional", xs |-> <<>>]
Some(x) == [k |-> "optional", xs |-> <<x>>]
Vector(xs) == [k |-> "vector", xs |-> xs]
Array(xs) == [k |-> "array", xs |-> xs]
Map(es) == [k |-> "map", es |-> es]
Tuple(xs) == [k |-> "tuple", xs |-> xs]
Variant(i, x) == [k |-> "variant", index |-> i, val |-> x]
NoValue == [k |-> "none"]

\* One Serializer / Deserializer operation.
Op(name, x) == [op |-> name, v |-> x]

(***************************************************************************)
(* Serializable<T>::serialize: the operations issued to the Serializer.    *)
(***************************************************************************)
RECURSIVE serialize(_, _)
RECURSIVE serialize_items(_, _, _)
RECURSIVE serialize_entries(_, _, _, _)
RECURSIVE serialize_args(_, _, _)

\* Serializable<std::string> ... Serializable<int128_t>: one call of the
\* Serializer operation of the leaf's kind.
serialize_leaf(T, x) == << Op(T.k, x.v) >>

\* Serializable<std::unique_ptr<T, Deleter>>
serialize_unique_ptr(T, x) == serialize(T.t, x.ptr)

\* Serializable<std::optional<T>>
serialize_optional(T, x) ==
    IF Len(x.xs) = 1
    THEN << Op("u8", 1) >> \o serialize(T.t, x.xs[1])
    ELSE << Op("u8", 0) >>

\* for (const T &item : value) Serializable<T>::serialize(item, serializer);
serialize_items(T, xs, i) ==
    IF i > Len(xs) THEN <<>>
    ELSE serialize(T, xs[i]) \o serialize_items(T, xs, i + 1)

\* Serializable<std::vector<T, Allocator>>
serialize_vector(T, x) ==
    << Op("len", Len(x.xs)) >> \o serialize_items(T.t, x.xs, 1)

\* Serializable<std::array<T, N>>
serialize_array(T, x) == serialize_items(T.t, x.xs, 1)

\* for (const auto &item : value) { first; second; } in the map's key order
serialize_entries(K, V, es, i) ==
    IF i > Len(es) THEN <<>>
    ELSE serialize(K, es[i].key) \o serialize(V, es[i].val)
             \o serialize_entries(K, V, es, i + 1)

\* Serializable<std::map<K, V, Allocator>>
serialize_map(T, x) ==
    << Op("len", Len(x.es)) >> \o serialize_entries(T.kt, T.vt, x.es, 1)

\* (Serializable<Types>::serialize(args, serializer), ...): a fold over the
\* comma operator, sequenced left to right.
serialize_args(ts, xs, i) ==
    IF i > Len(ts) THEN <<>>
    ELSE serialize(ts[i], xs[i]) \o serialize_args(ts, xs, i + 1)

\* Serializable<std::tuple<Types...>>
serialize_tuple(T, x) == serialize_args(T.ts, x.xs, 1)

\* Fault injection: the index written after the payload.
serialize_variant_index_last(T, x) ==
    serialize(T.ts[x.index + 1], x.val) \o << Op("variant_index", x.index) >>

\* Serializable<std::variant<Types...>>
serialize_variant(T, x) ==
    << Op("variant_index", x.index) >> \o serialize(T.ts[x.index + 1], x.val)

\* Selection of the specialization by the static type T.
serialize(T, x) ==
    CASE T.k \in LeafKinds -> serialize_leaf(T, x)
      [] T.k = "unique_ptr" -> serialize_unique_ptr(T, x)
      [] T.k = "optional" -> serialize_optional(T, x)
      [] T.k = "vector" -> serialize_vector(T, x)
      [] T.k = "array" -> serialize_array(T, x)
      [] T.k = "map" -> serialize_map(T, x)
      [] T.k = "tuple" -> serialize_tuple(T, x)
      [] T.k = "variant" -> serialize_variant(T, x)

(***************************************************************************)
(* The Deserializer: it replays the operations of `inp` in order.  A call  *)
(* that finds no operation left, or an operation of another kind, throws.  *)
(* A reader state is [pos, log]: the cursor and the calls made so far.     *)
(***************************************************************************)
NoErr == "ok"
ErrEndOfInput == "deserializer: end of input"
ErrMalformed == "deserializer: malformed input"
ErrOptionTag == "invalid option tag"
ErrOutOfRange == "std::out_of_range"

Result(x, e, p, l) == [val |-> x, err |-> e, pos |-> p, log |-> l]
Start == [pos |-> 1, log |-> <<>>]
After(r) == [pos |-> r.pos, log |-> r.log]

read(name, inp, s) ==
    IF s.pos > Len(inp)
    THEN Result(NoValue, ErrEndOfInput, s.pos,
                Append(s.log, [op |-> name, err |-> ErrEndOfInput]))
    ELSE IF inp[s.pos].op # name
    THEN Result(NoValue, ErrMalformed, s.pos,
                Append(s.log, [op |-> name, err |-> ErrMalformed]))
    ELSE Result(inp[s.pos].v, NoErr, s.pos + 1,
                Append(s.log, [op |-> name, err |-> NoErr]))

(***************************************************************************)
(* Helpers of the composite Deserializable derivations.                    *)
(***************************************************************************)
\* std::less<K> on the key types drawn here (integers).
key_less(a, b) == a.v < b.v

\* Fault injection: insert_or_assign, overwriting an existing key.
map_insert_or_assign(es, key, val) ==
    IF \E i \in 1..Len(es) : ~key_less(es[i].key, key) /\ ~key_less(key, es[i].key)
    THEN [i \in 1..Len(es) |->
             IF ~key_less(es[i].key, key) /\ ~key_less(key, es[i].key)
             THEN [key |-> key, val |-> val] ELSE es[i]]
    ELSE LET n == Cardinality({i \in 1..Len(es) : key_less(es[i].key, key)})
         IN  SubSeq(es, 1, n) \o << [key |-> key, val |-> val] >>
                 \o SubSeq(es, n + 1, Len(es))

\* std::map::insert({key, value}): a map keeps its entries in key order and
\* insert leaves the map alone when an equivalent key is already present.
map_insert(es, key, val) ==
    IF \E i \in 1..Len(es) : ~key_less(es[i].key, key) /\ ~key_less(key, es[i].key)
    THEN es
    ELSE LET n == Cardinality({i \in 1..Len(es) : key_less(es[i].key, key)})
         IN  SubSeq(es, 1, n) \o << [key |-> key, val |-> val] >>
                 \o SubSeq(es, n + 1, Len(es))

\* Order in which the arguments of std::make_tuple(f<Types>(de)...) are
\* evaluated: unspecified by the language, fixed by the build.
arg_order(n) ==
    IF evalOrder = "left_to_right" THEN [i \in 1..n |-> i]
    ELSE [i \in 1..n |-> n + 1 - i]

\* make_case(std::common_type<T>{}): the closure that deserializes a T and
\* returns it as a variant.
make_case(T) == [decodes |-> T]

\* Fault injection: the cases listed in reverse order.
make_cases_reversed(ts) == [i \in 1..Len(ts) |-> make_case(ts[Len(ts) + 1 - i])]

\* static const std::array<Case, sizeof...(Types)> cases = {make_case(...)...}
make_cases(ts) == [i \in 1..Len(ts) |-> make_case(ts[i])]

\* std::variant<Types...>(x) with x of type T: the converting constructor
\* selects the alternative whose type is T.
variant_from(ts, T, x) ==
    Variant((CHOOSE j \in 1..Len(ts) : ts[j] = T) - 1, x)

(***************************************************************************)
(* Deserializable<T>::deserialize.  An exception ends every enclosing call *)
(* at once: there is no try block in the file.                             *)
(***************************************************************************)
RECURSIVE deserialize(_, _, _)
RECURSIVE deserialize_items(_, _, _, _, _)
RECURSIVE deserialize_entries(_, _, _, _, _, _)
RECURSIVE deserialize_args(_, _, _, _, _, _)

\* Deserializable<std::string> ... Deserializable<int128_t>: the value the
\* Deserializer operation returns; unit calls deserialize_unit, returns {}.
deserialize_leaf(T, inp, s) ==
    LET r == read(T.k, inp, s)
    IN  IF r.err # NoErr THEN r
        ELSE IF T.k = "unit" THEN [r EXCEPT !.val = Unit]
        ELSE [r EXCEPT !.val = Leaf(T.k, r.val)]

\* Deserializable<std::unique_ptr<T>>
deserialize_unique_ptr(T, inp, s) ==
    LET r == deserialize(T.t, inp, s)
    IN  IF r.err # NoErr THEN r ELSE [r EXCEPT !.val = Box(r.val)]

\* Fault injection: every non-zero tag taken as present.
deserialize_optional_lenient(T, inp, s) ==
    LET tag == read("u8", inp, s)
    IN  IF tag.err # NoErr THEN tag
        ELSE IF tag.val = 0 THEN [tag EXCEPT !.val = None]
        ELSE LET r == deserialize(T.t, inp, After(tag))
             IN  IF r.err # NoErr THEN r ELSE [r EXCEPT !.val = Some(r.val)]

\* Deserializable<std::optional<T>>
deserialize_optional(T, inp, s) ==
    LET tag == read("u8", inp, s)
    IN  IF tag.err # NoErr THEN tag
        ELSE IF tag.val = 0 THEN [tag EXCEPT !.val = None]
        ELSE IF tag.val # 1
             THEN Result(NoValue, ErrOptionTag, tag.pos, tag.log)
        ELSE LET r == deserialize(T.t, inp, After(tag))
             IN  IF r.err # NoErr THEN r ELSE [r EXCEPT !.val = Some(r.val)]

\* Fault injection: the loop counter starting at 1.
deserialize_items_from_one(T, inp, s, len, acc) ==
    IF len <= 1 THEN Result(acc, NoErr, s.pos, s.log)
    ELSE LET r == deserialize(T, inp, s)
         IN  IF r.err # NoErr THEN r
             ELSE deserialize_items(T, inp, After(r), len - 1,
                                    Append(acc, r.val))

\* Fault injection: an element's error caught, the loop left.
deserialize_items_swallow(T, inp, s, len, acc) ==
    IF len = 0 THEN Result(acc, NoErr, s.pos, s.log)
    ELSE LET r == deserialize(T, inp, s)
         IN  IF r.err # NoErr THEN Result(acc, NoErr, r.pos, r.log)
             ELSE deserialize_items(T, inp, After(r), len - 1,
                                    Append(acc, r.val))

\* for (i = 0; i < len; i++) result.push_back(deserialize(deserializer));
\* and, with len = N, for (T &item : result) item = deserialize(deserializer);
deserialize_items(T, inp, s, len, acc) ==
    IF len = 0 THEN Result(acc, NoErr, s.pos, s.log)
    ELSE LET r == deserialize(T, inp, s)
         IN  IF r.err # NoErr THEN r
             ELSE deserialize_items(T, inp, After(r), len - 1,
                                    Append(acc, r.val))

\* Deserializable<std::vector<T, Allocator>>
deserialize_vector(T, inp, s) ==
    LET len == read("len", inp, s)
    IN  IF len.err # NoErr THEN len
        ELSE LET r == deserialize_items(T.t, inp, After(len), len.val, <<>>)
             IN  IF r.err # NoErr THEN r ELSE [r EXCEPT !.val = Vector(r.val)]

\* for (i = 0; i < len; i++) { key; value; result.insert({key, value}); }
deserialize_entries(K, V, inp, s, len, acc) ==
    IF len = 0 THEN Result(acc, NoErr, s.pos, s.log)
    ELSE LET rk == deserialize(K, inp, s)
         IN  IF rk.err # NoErr THEN rk
             ELSE LET rv == deserialize(V, inp, After(rk))
                  IN  IF rv.err # NoErr THEN rv
                      ELSE deserialize_entries(K, V, inp, After(rv), len - 1,
                               map_insert(acc, rk.val, rv.val))

\* Deserializable<std::map<K, V>>
deserialize_map(T, inp, s) ==
    LET len == read("len", inp, s)
    IN  IF len.err # NoErr THEN len
        ELSE LET r == deserialize_entries(T.kt, T.vt, inp, After(len),
                                          len.val, <<>>)
             IN  IF r.err # NoErr THEN r ELSE [r EXCEPT !.val = Map(r.val)]

\* Deserializable<std::array<T, N>>
deserialize_array(T, inp, s) ==
    LET r == deserialize_items(T.t, inp, s, T.n, <<>>)
    IN  IF r.err # NoErr THEN r ELSE [r EXCEPT !.val = Array(r.val)]

\* std::make_tuple(Deserializable<Types>::deserialize(deserializer)...):
\* the j-th argument evaluated is component order[j]; its value lands at
\* its own position of the tuple.
deserialize_args(ts, inp, s, order, j, acc) ==
    IF j > Len(ts) THEN Result(acc, NoErr, s.pos, s.log)
    ELSE LET r == deserialize(ts[order[j]], inp, s)
         IN  IF r.err # NoErr THEN r
             ELSE deserialize_args(ts, inp, After(r), order, j + 1,
                                   [acc EXCEPT ![order[j]] = r.val])

\* Deserializable<std::tuple<Types...>>
deserialize_tuple(T, inp, s) ==
    LET r == deserialize_args(T.ts, inp, s, arg_order(Len(T.ts)), 1,
                              [i \in 1..Len(T.ts) |-> NoValue])
    IN  IF r.err # NoErr THEN r ELSE [r EXCEPT !.val = Tuple(r.val)]

\* Deserializable<std::variant<Types...>>: cases.at(index)(deserializer);
\* std::array::at throws std::out_of_range unless index < size().
deserialize_variant(T, inp, s) ==
    LET idx == read("variant_index", inp, s)
    IN  IF idx.err # NoErr THEN idx
        ELSE IF idx.val >= Len(make_cases(T.ts))
             THEN Result(NoValue, ErrOutOfRange, idx.pos, idx.log)
        ELSE LET case == make_cases(T.ts)[idx.val + 1]
                 r == deserialize(case.decodes, inp, After(idx))
             IN  IF r.err # NoErr THEN r
                 ELSE [r EXCEPT !.val = variant_from(T.ts, case.decodes, r.val)]

\* Selection of the specialization by the static type T.
deserialize(T, inp, s) ==
    CASE T.k \in LeafKinds -> deserialize_leaf(T, inp, s)
      [] T.k = "unique_ptr" -> deserialize_unique_ptr(T, inp, s)
      [] T.k = "optional" -> deserialize_optional(T, inp, s)
      [] T.k = "vector" -> deserialize_vector(T, inp, s)
      [] T.k = "map" -> deserialize_map(T, inp, s)
      [] T.k = "array" -> deserialize_array(T, inp, s)
      [] T.k = "tuple" -> deserialize_tuple(T, inp, s)
      [] T.k = "variant" -> deserialize_variant(T, inp, s)

(***************************************************************************)
(* The shapes and values drawn as inputs.                                  *)
(***************************************************************************)
LeafTypes == {TUnit, TU8, TU32}
KeyTypes == {TU8}

\* Every combinator applied once to the types of S.  A variant lists
\* distinct types: std::variant<Types...>(x) does not compile otherwise.
Composites(S) ==
    {TBox(T) : T \in S} \cup {TOption(T) : T \in S}
        \cup {TVector(T) : T \in S} \cup {TArray(T, ArrayN) : T \in S}
        \cup {TMap(K, V) : K \in KeyTypes, V \in S}
        \cup {TTuple(<<A, B>>) : A \in S, B \in S}
        \cup {TVariant(<<p[1], p[2]>>) : p \in {q \in S \X S : q[1] # q[2]}}

\* Composite types nested inside another composite.
InnerTypes ==
    {TOption(TU8), TVector(TU8), TTuple(<<TU8, TU8>>),
     TVariant(<<TUnit, TU32>>), TBox(TU8)}

Shapes ==
    LeafTypes \cup {TBool, TStr} \cup Composites(LeafTypes)
        \cup Composites(InnerTypes)
        \cup {TTuple(<<TU8, TU32, TU8>>), TVariant(<<TU32, TUnit>>),
              TVariant(<<TUnit, TU8, TU32>>)}

LeafValues(kind) ==
    CASE kind = "unit" -> {0}
      [] kind = "bool" -> {TRUE, FALSE}
      [] kind = "u8" -> {0, 1}
      [] kind = "u32" -> {7, 42}
      [] kind = "str" -> {<<>>, <<97>>, <<97, 98>>}

SeqsUpTo(S, n) == UNION {[1..m -> S] : m \in 0..n}

RECURSIVE ValuesOf(_)
RECURSIVE ProductOf(_, _)

\* The sequences xs with xs[i] a value of ts[i], from position i on.
ProductOf(ts, i) ==
    IF i > Len(ts) THEN {<<>>}
    ELSE {<<x>> \o rest : x \in ValuesOf(ts[i]), rest \in ProductOf(ts, i + 1)}

ValuesOf(T) ==
    CASE T.k \in LeafKinds -> {Leaf(T.k, x) : x \in LeafValues(T.k)}
      [] T.k = "unique_ptr" -> {Box(x) : x \in ValuesOf(T.t)}
      [] T.k = "optional" -> {None} \cup {Some(x) : x \in ValuesOf(T.t)}
      [] T.k = "vector" -> {Vector(xs) : xs \in SeqsUpTo(ValuesOf(T.t), MaxLen)}
      [] T.k = "array" -> {Array(xs) : xs \in [1..T.n -> ValuesOf(T.t)]}
      [] T.k = "map" ->
            {Map(es) : es \in
                {e \in SeqsUpTo([key : ValuesOf(T.kt), val : ValuesOf(T.vt)], MaxLen) :
                    \A i \in 1..(Len(e) - 1) : key_less(e[i].key, e[i + 1].key)}}
      [] T.k = "tuple" -> {Tuple(xs) : xs \in ProductOf(T.ts, 1)}
      [] T.k = "variant" ->
            UNION {{Variant(i - 1, x) : x \in ValuesOf(T.ts[i])} : i \in 1..Len(T.ts)}

\* Operations a corrupted input may carry in place of a recorded one.
ForeignOps ==
    {Op("u8", 0), Op("u8", 1), Op("u8", 2), Op("u8", 255), Op("u32", 42),
     Op("unit", 0), Op("len", 0), Op("len", 1), Op("len", 3),
     Op("variant_index", 0), Op("variant_index", 1), Op("variant_index", 2),
     Op("variant_index", 3)}

NotRun == Result(NoValue, "not run", 0, <<>>)

(***************************************************************************)
(* Codec driver: serialize a value, replay the operations (possibly after  *)
(* the medium corrupted or truncated them) into deserialize.               *)
(***************************************************************************)
EqIdle ==
    /\ lhs = [high |-> 0, low |-> 0] /\ rhs = [high |-> 0, low |-> 0]
    /\ eqKind = "none" /\ eqRes = "none"

TableIdle ==
    /\ guard = <<>> /\ cases = <<>> /\ built = <<>> /\ pc = <<>>
    /\ inst = <<>> /\ index = <<>> /\ decoded = <<>> /\ calls = <<>>

CodecIdle ==
    /\ evalOrder = "left_to_right" /\ ty = TUnit /\ value = Unit
    /\ output = <<>> /\ input = <<>> /\ res = NotRun

Init ==
    /\ evalOrder \in {"left_to_right", "right_to_left"}
    /\ ty \in Shapes
    /\ value \in ValuesOf(ty)
    /\ output = <<>>
    /\ input = <<>>
    /\ phase = "start"
    /\ res = NotRun
    /\ EqIdle
    /\ TableIdle

SerializeCall ==
    /\ phase = "start"
    /\ output' = serialize(ty, value)
    /\ input' = output'
    /\ phase' = "serialized"
    /\ UNCHANGED <<evalOrder, ty, value, res, eqVars, tableVars>>

CorruptOp ==
    /\ phase = "serialized"
    /\ \E i \in 1..Len(input) : \E o \in ForeignOps :
           /\ IF o.op = input[i].op THEN o.v # input[i].v ELSE TRUE
           /\ input' = [input EXCEPT ![i] = o]
    /\ phase' = "tampered"
    /\ UNCHANGED <<evalOrder, ty, value, output, res, eqVars, tableVars>>

Truncate ==
    /\ phase = "serialized"
    /\ \E n \in 0..(Len(input) - 1) : input' = SubSeq(input, 1, n)
    /\ phase' = "tampered"
    /\ UNCHANGED <<evalOrder, ty, value, output, res, eqVars, tableVars>>

DeserializeCall ==
    /\ phase \in {"serialized", "tampered"}
    /\ res' = deserialize(ty, input, Start)
    /\ phase' = "done"
    /\ UNCHANGED <<evalOrder, ty, value, output, input, eqVars, tableVars>>

Next == SerializeCall \/ CorruptOp \/ Truncate \/ DeserializeCall

Spec == Init /\ [][Next]_vars

(***************************************************************************)
(* operator== of the 128-bit integer structs.                              *)
(***************************************************************************)
\* Representatives of the 64-bit halves: uint64_t high/low, int64_t high.
U64Values == {0, 1, 2}
I64Values == {-1, 0, 1}

\* bool operator==(const uint128_t &lhs, const uint128_t &rhs)
uint128_eq(l, r) == l.high = r.high /\ l.low = l.low

\* bool operator==(const int128_t &lhs, const int128_t &rhs)
int128_eq(l, r) == l.high = r.high /\ l.low = r.low

InitEq ==
    /\ eqKind \in {"uint128_t", "int128_t"}
    /\ lhs \in [high : IF eqKind = "uint128_t" THEN U64Values ELSE I64Values,
                low : U64Values]
    /\ rhs \in [high : IF eqKind = "uint128_t" THEN U64Values ELSE I64Values,
                low : U64Values]
    /\ eqRes = "none"
    /\ phase = "start"
    /\ CodecIdle
    /\ TableIdle

CompareU128 ==
    /\ phase = "start" /\ eqKind = "uint128_t"
    /\ eqRes' = IF uint128_eq(lhs, rhs) THEN "true" ELSE "false"
    /\ phase' = "done"
    /\ UNCHANGED <<lhs, rhs, eqKind, codecVars, tableVars>>

CompareI128 ==
    /\ phase = "start" /\ eqKind = "int128_t"
    /\ eqRes' = IF int128_eq(lhs, rhs) THEN "true" ELSE "false"
    /\ phase' = "done"
    /\ UNCHANGED <<lhs, rhs, eqKind, codecVars, tableVars>>

NextEq == CompareU128 \/ CompareI128

EqSpec == InitEq /\ [][NextEq]_vars

(***************************************************************************)
(* The static local `cases` of Deserializable<std::variant<Types...>>::    *)
(* deserialize<Deserializer>, under concurrent calls.  The function is a   *)
(* template over the Deserializer, so each Deserializer type instantiates  *)
(* its own `cases`.  A static local is initialized by the first call that  *)
(* reaches its declaration; calls arriving meanwhile wait.                 *)
(***************************************************************************)
NumThreads == 2    \* threads calling deserialize concurrently
MaxCalls == 2      \* deserialize calls started by each thread

Threads == 1..NumThreads
Deserializers == {"BcsDeserializer", "BincodeDeserializer"}

\* Types... of the variant the threads deserialize.
SumTypes == <<TUnit, TU32>>

InitTable ==
    /\ guard = [d \in Deserializers |-> "uninitialized"]
    /\ cases = [d \in Deserializers |-> <<>>]
    /\ built = [d \in Deserializers |-> 0]
    /\ pc = [t \in Threads |-> "idle"]
    /\ inst = [t \in Threads |-> "BcsDeserializer"]
    /\ index = [t \in Threads |-> 0]
    /\ decoded = [t \in Threads |-> "none"]
    /\ calls = [t \in Threads |-> 0]
    /\ phase = "start"
    /\ CodecIdle
    /\ EqIdle

\* A thread calls deserialize(deserializer) with a Deserializer of type d.
Call(t) ==
    /\ pc[t] = "idle" /\ calls[t] < MaxCalls
    /\ \E d \in Deserializers : inst' = [inst EXCEPT ![t] = d]
    /\ calls' = [calls EXCEPT ![t] = @ + 1]
    /\ decoded' = [decoded EXCEPT ![t] = "none"]
    /\ pc' = [pc EXCEPT ![t] = "static_init"]
    /\ UNCHANGED <<guard, cases, built, index, phase, codecVars, eqVars>>

\* Fault injection: no wait while another call initializes.
StaticInitBeginUnguarded(t) ==
    /\ pc[t] = "static_init" /\ guard[inst[t]] # "initialized"
    /\ guard' = [guard EXCEPT ![inst[t]] = "in_progress"]
    /\ cases' = [cases EXCEPT ![inst[t]] = <<>>]
    /\ pc' = [pc EXCEPT ![t] = "make_case"]
    /\ UNCHANGED <<built, inst, index, decoded, calls, phase, codecVars, eqVars>>

\* Control reaches `static const ... cases` first: this call initializes it.
StaticInitBegin(t) ==
    /\ pc[t] = "static_init" /\ guard[inst[t]] = "uninitialized"
    /\ guard' = [guard EXCEPT ![inst[t]] = "in_progress"]
    /\ cases' = [cases EXCEPT ![inst[t]] = <<>>]
    /\ pc' = [pc EXCEPT ![t] = "make_case"]
    /\ UNCHANGED <<built, inst, index, decoded, calls, phase, codecVars, eqVars>>

\* `cases` is already initialized: the declaration is passed over.
StaticInitSkip(t) ==
    /\ pc[t] = "static_init" /\ guard[inst[t]] = "initialized"
    /\ pc' = [pc EXCEPT ![t] = "read_index"]
    /\ UNCHANGED <<guard, cases, built, inst, index, decoded, calls, phase,
                   codecVars, eqVars>>

\* {make_case(std::common_type<Types>{})...}: the next element of the list.
MakeCase(t) ==
    /\ pc[t] = "make_case" /\ Len(cases[inst[t]]) < Len(SumTypes)
    /\ cases' = [cases EXCEPT ![inst[t]] =
                    Append(@, make_case(SumTypes[Len(@) + 1]))]
    /\ UNCHANGED <<guard, built, pc, inst, index, decoded, calls, phase,
                   codecVars, eqVars>>

\* The initialization of `cases` completes.
StaticInitEnd(t) ==
    /\ pc[t] = "make_case" /\ Len(cases[inst[t]]) = Len(SumTypes)
    /\ guard' = [guard EXCEPT ![inst[t]] = "initialized"]
    /\ built' = [built EXCEPT ![inst[t]] = @ + 1]
    /\ pc' = [pc EXCEPT ![t] = "read_index"]
    /\ UNCHANGED <<cases, inst, index, decoded, calls, phase, codecVars, eqVars>>

\* auto index = deserializer.deserialize_variant_index();
ReadIndex(t) ==
    /\ pc[t] = "read_index"
    /\ \E i \in 0..Len(SumTypes) : index' = [index EXCEPT ![t] = i]
    /\ pc' = [pc EXCEPT ![t] = "at"]
    /\ UNCHANGED <<guard, cases, built, inst, decoded, calls, phase,
                   codecVars, eqVars>>

\* return cases.at(index)(deserializer);
InvokeCase(t) ==
    /\ pc[t] = "at"
    /\ decoded' = [decoded EXCEPT ![t] =
           IF index[t] >= Len(SumTypes) THEN ErrOutOfRange
           ELSE IF index[t] + 1 > Len(cases[inst[t]]) THEN "empty std::function"
           ELSE cases[inst[t]][index[t] + 1].decodes.k]
    /\ pc' = [pc EXCEPT ![t] = "idle"]
    /\ UNCHANGED <<guard, cases, built, inst, index, calls, phase,
                   codecVars, eqVars>>

NextTable ==
    \E t \in Threads :
        \/ Call(t)
        \/ StaticInitBegin(t)
        \/ StaticInitSkip(t)
        \/ MakeCase(t)
        \/ StaticInitEnd(t)
        \/ ReadIndex(t)
        \/ InvokeCase(t)

TableSpec == InitTable /\ [][NextTable]_vars

(***************************************************************************)
(* Properties.                                                             *)
(***************************************************************************)
IsLeaf(T) == T.k \in LeafKinds
Ok(name) == [op |-> name, err |-> NoErr]

RECURSIVE Flatten(_)
Flatten(ss) == IF ss = <<>> THEN <<>> ELSE Head(ss) \o Flatten(Tail(ss))

\* C1: replaying the operations serialize(v) issued into deserialize returns
\* a value equal to v and consumes exactly the recorded operations.
RoundTripLaw ==
    (phase = "done" /\ Len(input) = Len(output) /\ input = output) =>
        /\ res.err = NoErr
        /\ res.val = value
        /\ res.pos = Len(input) + 1
        /\ Len(res.log) = Len(output)

DecodeOfVariant(outOfRange) ==
    (phase = "done" /\ ty.k = "variant" /\ Len(input) >= 1
         /\ input[1].op = "variant_index") =>
        LET i == input[1].v
        IN  /\ res.log[1] = Ok("variant_index")
            /\ IF i < Len(ty.ts)
               THEN LET r == deserialize(ty.ts[i + 1], input,
                                         [pos |-> 2, log |-> <<res.log[1]>>])
                    IN  /\ res.err = r.err
                        /\ res.log = r.log
                        /\ res.pos = r.pos
                        /\ r.err = NoErr => res.val = Variant(i, r.val)
               ELSE /\ res.err = outOfRange
                    /\ res.val = NoValue
                    /\ Len(res.log) = 1

\* C2 (as stated): a variant index i < n decodes alternative i's payload and
\* yields the variant at alternative i; an index i >= n fails with the error
\* "variant index out of range" without a payload read.
VariantIndexOutOfRangeMessage == DecodeOfVariant("variant index out of range")

\* C2 (amended): a variant index i < n decodes alternative i's payload and
\* yields the variant at alternative i; an index i >= n fails with the
\* std::out_of_range thrown by std::array::at, without a payload read.
VariantIndexChecked == DecodeOfVariant(ErrOutOfRange)

VariantIndexCheckedWitness ==
    /\ phase = "done" /\ ty.k = "variant" /\ Len(input) >= 1
    /\ input[1].op = "variant_index" /\ input[1].v >= Len(ty.ts)
    /\ res.err = ErrOutOfRange

DecodeOfOptional(invalidTag) ==
    (phase = "done" /\ ty.k = "optional" /\ Len(input) >= 1
         /\ input[1].op = "u8") =>
        LET tag == input[1].v
        IN  /\ res.log[1] = Ok("u8")
            /\ CASE tag = 0 ->
                     /\ res.err = NoErr /\ res.val = None
                     /\ Len(res.log) = 1 /\ res.pos = 2
                 [] tag = 1 ->
                     LET r == deserialize(ty.t, input,
                                          [pos |-> 2, log |-> <<res.log[1]>>])
                     IN  /\ res.err = r.err
                         /\ res.log = r.log
                         /\ r.err = NoErr => res.val = Some(r.val)
                 [] OTHER ->
                     /\ res.err = invalidTag /\ res.val = NoValue
                     /\ Len(res.log) = 1

\* C3 (as stated): the u8 discriminant 0 yields absent with no further read,
\* 1 yields present wrapping the decoded inner value, any other value fails
\* with the error "invalid option discriminant" without reading the inner.
OptionDiscriminantMessage == DecodeOfOptional("invalid option discriminant")

\* C3 (amended): the u8 discriminant 0 yields absent with no further read,
\* 1 yields present wrapping the decoded inner value, any other value fails
\* with the thrown string "invalid option tag" without reading the inner.
OptionTagChecked == DecodeOfOptional(ErrOptionTag)

OptionTagCheckedWitness ==
    /\ phase = "done" /\ ty.k = "optional" /\ Len(input) >= 1
    /\ input[1].op = "u8" /\ input[1].v = 255
    /\ res.err = ErrOptionTag

\* A map input of leaf keys and leaf values carrying all its len entries.
WellFormedLeafMap ==
    /\ phase = "done" /\ ty.k = "map" /\ IsLeaf(ty.vt)
    /\ Len(input) >= 1 /\ input[1].op = "len"
    /\ Len(input) >= 1 + 2 * input[1].v
    /\ \A j \in 1..input[1].v :
           input[2 * j].op = ty.kt.k /\ input[2 * j + 1].op = ty.vt.k

DecodeOfMap(firstWins) ==
    WellFormedLeafMap =>
        LET len == input[1].v
            keyAt(j) == input[2 * j].v
            valAt(j) == input[2 * j + 1].v
            same(j) == {i \in 1..len : keyAt(i) = keyAt(j)}
            winner(j) ==
                IF firstWins
                THEN CHOOSE i \in same(j) : \A h \in same(j) : i <= h
                ELSE CHOOSE i \in same(j) : \A h \in same(j) : i >= h
        IN  /\ res.err = NoErr
            /\ Len(res.val.es) = Cardinality({keyAt(j) : j \in 1..len})
            /\ \A j \in 1..len : \E e \in 1..Len(res.val.es) :
                   /\ res.val.es[e].key = Leaf(ty.kt.k, keyAt(j))
                   /\ res.val.es[e].val = Leaf(ty.vt.k, valAt(winner(j)))

\* C4 (as stated): when a key occurs in several entries read, the map holds
\* the value of the last entry read with that key, and no error is raised.
MapLastWriteWins == DecodeOfMap(FALSE)

\* C4 (amended): when a key occurs in several entries read, the map holds
\* the value of the first entry read with that key (std::map::insert leaves
\* an existing key alone), and no error is raised.
MapFirstWriteWins == DecodeOfMap(TRUE)

MapFirstWriteWinsWitness ==
    /\ WellFormedLeafMap /\ res.err = NoErr
    /\ \E i \in 1..input[1].v : \E j \in 1..input[1].v :
           /\ i < j
           /\ input[2 * i].v = input[2 * j].v
           /\ input[2 * i + 1].v # input[2 * j + 1].v

\* C5: a tuple decode issues the reads of its components in declared order,
\* without length or discriminant, and puts the k-th value read at position k.
TupleDecodesInDeclaredOrder ==
    (phase = "done" /\ ty.k = "tuple" /\ \A i \in 1..Len(ty.ts) : IsLeaf(ty.ts[i])) =>
        /\ Len(res.log) <= Len(ty.ts)
        /\ \A j \in 1..Len(res.log) : res.log[j].op = ty.ts[j].k
        /\ res.err = NoErr =>
               \A i \in 1..Len(ty.ts) :
                   res.val.xs[i] = Leaf(ty.ts[i].k, input[i].v)

\* C6: serialize of a vector issues len(k) and then the k element encodings
\* in index order; deserialize reads len once, decodes exactly len elements
\* and appends them in read order; for len = 0 nothing follows the len read.
VectorLengthFidelity ==
    /\ (phase \in {"serialized", "tampered", "done"} /\ ty.k = "vector") =>
           /\ output[1] = Op("len", Len(value.xs))
           /\ Tail(output) =
                  Flatten([j \in 1..Len(value.xs) |-> serialize(ty.t, value.xs[j])])
    /\ (phase = "done" /\ ty.k = "vector" /\ Len(input) >= 1
            /\ input[1].op = "len") =>
           LET len == input[1].v
           IN  /\ res.log[1] = Ok("len")
               /\ IsLeaf(ty.t) =>
                      /\ Len(res.log) <= 1 + len
                      /\ \A j \in 2..Len(res.log) : res.log[j].op = ty.t.k
               /\ res.err = NoErr =>
                      /\ Len(res.val.xs) = len
                      /\ IsLeaf(ty.t) =>
                             /\ Len(res.log) = 1 + len
                             /\ \A j \in 1..len :
                                    res.val.xs[j] = Leaf(ty.t.k, input[1 + j].v)
               /\ len = 0 =>
                      /\ res.err = NoErr /\ res.val = Vector(<<>>)
                      /\ Len(res.log) = 1

VectorLengthFidelityWitness ==
    /\ phase = "done" /\ ty.k = "vector" /\ IsLeaf(ty.t) /\ res.err = NoErr
    /\ Len(res.val.xs) >= 2 /\ Len(res.log) = 1 + Len(res.val.xs)

DecodeErrorsPropagate ==
    phase = "done" =>
        /\ \A j \in 1..(Len(res.log) - 1) : res.log[j].err = NoErr
        /\ res.pos = 1 + Cardinality({j \in 1..Len(res.log) : res.log[j].err = NoErr})
        /\ (Len(res.log) >= 1 /\ res.log[Len(res.log)].err # NoErr) =>
               /\ res.err = res.log[Len(res.log)].err
               /\ res.val = NoValue
        /\ res.err = NoErr => res.val # NoValue
        /\ (res.err # NoErr /\ Len(res.log) >= 1
                /\ res.log[Len(res.log)].err = NoErr) =>
               /\ res.val = NoValue
               /\ \/ /\ res.err = ErrOptionTag
                     /\ res.log[Len(res.log)].op = "u8"
                     /\ input[res.pos - 1].v \notin {0, 1}
                  \/ /\ res.err = ErrOutOfRange
                     /\ res.log[Len(res.log)].op = "variant_index"
        /\ res.err # NoErr => Len(res.log) >= 1

DecodeErrorsPropagateWitness ==
    /\ phase = "done" /\ ty.k = "vector" /\ ty.t.k = "optional"
    /\ res.err = ErrOptionTag /\ Len(res.log) >= 3

\* C9: operator== on uint128_t and on int128_t is true exactly when both
\* the high and the low halves are equal.
Equality128IsBitwise ==
    (phase = "done" /\ eqKind \in {"uint128_t", "int128_t"}) =>
        ((eqRes = "true") <=> (lhs.high = rhs.high /\ lhs.low = rhs.low))

TableInUse ==
    /\ \A t \in Threads :
           pc[t] \in {"read_index", "at"} =>
               /\ guard[inst[t]] = "initialized"
               /\ cases[inst[t]] = make_cases(SumTypes)
    /\ \A t \in Threads :
           (pc[t] = "idle" /\ decoded[t] \notin {"none", ErrOutOfRange}) =>
               decoded[t] = SumTypes[index[t] + 1].k

\* C10 (as stated): over all deserialize calls for one variant type the case
\* table is constructed at most once, is complete before a call indexes it,
\* and its entry i decodes alternative i.
CaseTableBuiltOncePerSumType ==
    /\ built["BcsDeserializer"] + built["BincodeDeserializer"] <= 1
    /\ TableInUse

\* C10 (amended): over all deserialize calls for one variant type and one
\* Deserializer type the case table is constructed at most once, is complete
\* before a call indexes it, is never modified afterwards, and its entry i
\* decodes alternative i; later calls reuse it.
CaseTableBuiltOncePerInstantiation ==
    /\ [](\A d \in Deserializers : built[d] <= 1)
    /\ []TableInUse
    /\ [][\A d \in Deserializers :
              guard[d] = "initialized" =>
                  /\ guard'[d] = "initialized"
                  /\ cases'[d] = cases[d]
                  /\ built'[d] = built[d]]_vars

CaseTableWitness ==
    \E t \in Threads : \E u \in Threads \ {t} :
        /\ calls[t] >= 2 /\ pc[t] = "at" /\ built[inst[t]] = 1
        /\ inst[u] = inst[t] /\ pc[u] = "at"

====
